---- MODULE Spec2Model ----
(***************************************************************************)
(* A model of holohub: the control plane's device registry (the Device     *)
(* entity, its status and heartbeat ingestion) and the device client (the  *)
(* content cache, the playlist fetcher and the start-up / playback flow).  *)
(*                                                                         *)
(* The module holds several specifications over one set of variables; a   *)
(* specification leaves the variables of the other components unchanged.   *)
(*   SpecRegistry  the Device operations, one request at a time            *)
(*   SpecLiveness  a device driven by heartbeats and liveness checks only  *)
(*   SpecIngest    heartbeat requests of one device that overlap in time   *)
(*   SpecStore     the ContentManager, its methods called in any order     *)
(*   SpecSync      the PlaylistFetcher, its methods called in any order    *)
(*   SpecClient    one run of DeviceClient.start with its playback thread  *)
(***************************************************************************)
EXTENDS Integers, Sequences, FiniteSets, TLC

(***************************************************************************)
(* Bounds of the model.                                                    *)
(***************************************************************************)
\* the server clock runs from 1 to MaxTime
MaxTime == 4
\* liveness checks are no longer counted once the counter reached this value
MaxFailures == 5

\* the device's clock runs from 1 to MaxClock
MaxClock == 3
\* a playlist has at most this many items
MaxItems == 2
\* the playlist_items table holds at most this many rows of the playlist
MaxRows == 3

(***************************************************************************)
(* Program constants.                                                      *)
(***************************************************************************)
\* content_manager.py:44  max_cache_size_gb: int = 10 (config.py:40), in GB
MaxCacheSize == 10
\* a download is written chunk by chunk (api_client.py:269); a chunk of the
\* model is this many GB
ChunkSize == 4
\* device.py:260  `if self.consecutive_failures >= 3`
OfflineThreshold == 3

\* device.py:41-48  class DeviceStatus
PENDING == "pending"
ACTIVE == "active"
OFFLINE == "offline"
MAINTENANCE == "maintenance"
DECOMMISSIONED == "decommissioned"
DeviceStatus == {PENDING, ACTIVE, OFFLINE, MAINTENANCE, DECOMMISSIONED}

\* a NULL timestamp column
Null == 0
\* an absent playback_position_sec, a NULL playback_position
NoPlaybackPosition == -1
\* an absent optional field of a request
None == "none"

\* the device ids of heartbeat requests: the id of the device of the model,
\* a UUID that is the id of no device, and a string that is no UUID
TheDevice == "d1"
MalformedIds == {"not-a-uuid"}
DeviceIds == {TheDevice, "d2"} \cup MalformedIds

\* the requests of SpecIngest that may be in flight together
Requests == {1, 2}

\* the assets the server holds
Assets == {"a1", "a2", "a3"}

\* the size of each asset's file on the server, in GB
AssetSize(a) == CASE a = "a1" -> 4 [] a = "a2" -> 4 [] OTHER -> 8

\* no file at a path
NoFile == -1

\* the playlists the server can answer an assignment read with: an id, the
\* loop flag and the items in position order, each an asset and a duration
PlaylistIds == {"p1", "p2"}
PlaylistAssets == {"a1", "a3"}
Durations == {5, 10}
Items == [asset_id : PlaylistAssets, duration_seconds : Durations]
ItemLists == UNION {[1..n -> Items] : n \in 0..MaxItems}
Playlists == [id : PlaylistIds, loop_mode : BOOLEAN, items : ItemLists]

\* PlaylistFetcher.current_playlist = None, DeviceClient._current_playlist = None
NoPlaylist == [id |-> None, loop_mode |-> FALSE, items |-> <<>>]

VARIABLES
    registered,   \* TRUE once create_device inserted the device row
    device,       \* the committed device row: status, last_heartbeat, consecutive_failures
    now,          \* the server's clock, what datetime.now() returns
    sess,         \* per request: the ORM session of a heartbeat request in flight
    lastOp,       \* history: the operation that produced this state
    prev,         \* history: the device row before that operation
    hbSeen,       \* history: the latest timestamp any processed heartbeat carried
    failsSince,   \* history: liveness-check failures since the last processed heartbeat
    device_playlists,  \* the device_playlists rows of the device
    assignedEver, \* history: the playlists assigned to the device so far
    assignedLast, \* history: the playlist of the latest assignment
    lastEval,     \* history: the last evaluation of a playlist's schedule
    playlist,     \* the playlists row of the edited playlist: item_count,
                  \* total_duration_sec, shuffle
    playlist_items,  \* the playlist_items rows of that playlist
    lastEdit,     \* history: the request on the playlist's items that produced this state
    cnow,         \* the device's clock
    metadata,     \* ContentManager.metadata: the entries in the order of the dict
    files,        \* the cache directory: per cache path the size of the file, or NoFile
    saved,        \* cache_metadata.json as last written
    lastCall,     \* history: the ContentManager call that produced this state
    prevMeta,     \* history: ContentManager.metadata before that call
    current_playlist,  \* PlaylistFetcher.current_playlist
    last_fetch_time,   \* PlaylistFetcher.last_fetch_time
    lastSync,     \* history: the PlaylistFetcher call that produced this state,
                  \* its result and its arguments
    pc,           \* where DeviceClient.start stands
    running,      \* DeviceClient._running
    display,      \* DeviceClient.display: "none", "created", "initialized" or "shut"
    dl,           \* download_playlist_content: the playlist, the next item, success,
                  \* and its history
    play          \* the playback thread: where execute_playlist stands, its
                  \* playlist, _current_playlist, _current_item_index, the last show

registryVars == <<registered, device, now, sess>>
historyVars == <<lastOp, prev, hbSeen, failsSince>>
storeVars == <<cnow, metadata, files, saved, lastCall, prevMeta>>
editVars == <<playlist, playlist_items, lastEdit>>
planningVars == <<device_playlists, assignedEver, assignedLast, lastEval,
                  playlist, playlist_items, lastEdit>>
serverVars == <<registered, device, now, sess, lastOp, prev, hbSeen, failsSince,
                device_playlists, assignedEver, assignedLast, lastEval,
                playlist, playlist_items, lastEdit>>
syncVars == <<current_playlist, last_fetch_time, lastSync>>
clientVars == <<pc, running, display, dl, play>>
vars == <<registered, device, now, sess, lastOp, prev, hbSeen, failsSince,
          device_playlists, assignedEver, assignedLast, lastEval,
          playlist, playlist_items, lastEdit,
          cnow, metadata, files, saved, lastCall, prevMeta,
          current_playlist, last_fetch_time, lastSync,
          pc, running, display, dl, play>>

(***************************************************************************)
(* The Device model (backend/app/models/device.py).                        *)
(***************************************************************************)
\* the column defaults of a row that is not inserted yet
NoRow ==
    [status |-> PENDING, last_heartbeat |-> Null, consecutive_failures |-> 0,
     current_playlist_id |-> None, playback_position |-> NoPlaybackPosition,
     firmware_version |-> None]

\* Device(status=DeviceStatus.PENDING, ...): last_heartbeat,
\* current_playlist_id, playback_position and firmware_version are nullable
\* and unset, consecutive_failures takes its default 0
NewDevice ==
    [status |-> PENDING, last_heartbeat |-> Null, consecutive_failures |-> 0,
     current_playlist_id |-> None, playback_position |-> NoPlaybackPosition,
     firmware_version |-> None]

\* the optional fields of a HeartbeatRequest the model follows: the playlist
\* the device reports (an id, or absent), its playback position (a number of
\* seconds, or absent) and its firmware version (absent, empty or a version)
PlaybackPositions == {0}
FirmwareVersions == {"", "v1"}
HeartbeatRequests ==
    [current_playlist_id : PlaylistIds \cup {None},
     playback_position_sec : PlaybackPositions \cup {NoPlaybackPosition},
     firmware_version : FirmwareVersions \cup {None}]

\* a heartbeat that carries none of them
BareHeartbeat ==
    [current_playlist_id |-> None, playback_position_sec |-> NoPlaybackPosition,
     firmware_version |-> None]

\* update_heartbeat with the reset of the failure counter left out
update_heartbeat_no_reset(d, t, playlist_id, position) ==
    [d EXCEPT !.last_heartbeat = t,
              !.current_playlist_id =
                  IF playlist_id # None THEN playlist_id ELSE @,
              !.playback_position =
                  IF position # NoPlaybackPosition THEN position ELSE @,
              !.status = IF d.status \in {OFFLINE, PENDING} THEN ACTIVE ELSE d.status]

\* update_heartbeat that brings back an OFFLINE device but not a PENDING one
update_heartbeat_offline_only(d, t, playlist_id, position) ==
    [d EXCEPT !.last_heartbeat = t,
              !.consecutive_failures = 0,
              !.current_playlist_id =
                  IF playlist_id # None THEN playlist_id ELSE @,
              !.playback_position =
                  IF position # NoPlaybackPosition THEN position ELSE @,
              !.status = IF d.status = OFFLINE THEN ACTIVE ELSE d.status]

\* update_heartbeat that brings a device of any status back to ACTIVE
update_heartbeat_any_status(d, t, playlist_id, position) ==
    [d EXCEPT !.last_heartbeat = t,
              !.consecutive_failures = 0,
              !.current_playlist_id =
                  IF playlist_id # None THEN playlist_id ELSE @,
              !.playback_position =
                  IF position # NoPlaybackPosition THEN position ELSE @,
              !.status = ACTIVE]

\* Device.update_heartbeat: stamps last_heartbeat with the clock, resets the
\* counter, takes over the current playlist and the playback position that
\* are not None, and moves OFFLINE or PENDING to ACTIVE
update_heartbeat(d, t, playlist_id, position) ==
    [d EXCEPT !.last_heartbeat = t,
              !.consecutive_failures = 0,
              !.current_playlist_id =
                  IF playlist_id # None THEN playlist_id ELSE @,
              !.playback_position =
                  IF position # NoPlaybackPosition THEN position ELSE @,
              !.status = IF d.status \in {OFFLINE, PENDING} THEN ACTIVE ELSE d.status]

\* the handler's updates with the optional fields assigned as they come
HeartbeatAssignsAll(d, t, data) ==
    [d EXCEPT !.last_heartbeat = t,
              !.consecutive_failures = 0,
              !.current_playlist_id = data.current_playlist_id,
              !.playback_position = data.playback_position_sec,
              !.firmware_version = data.firmware_version,
              !.status = IF d.status \in {OFFLINE, PENDING} THEN ACTIVE ELSE d.status]

\* device_heartbeat, lines 648-664, on the loaded device: update_heartbeat
\* with the fields of the request (current_playlist is None when the
\* request's id is absent or empty), then the firmware version when the
\* request has a non-empty one
Heartbeat(d, t, data) ==
    LET u == update_heartbeat(d, t, data.current_playlist_id,
                              data.playback_position_sec)
    IN  [u EXCEPT !.firmware_version =
                      IF data.firmware_version \notin {None, ""}
                      THEN data.firmware_version ELSE @]

\* mark_offline with the comparison off by one (> for >=)
mark_offline_late(d) ==
    LET n == d.consecutive_failures + 1
    IN  [d EXCEPT !.consecutive_failures = n,
                  !.status = IF n > OfflineThreshold THEN OFFLINE ELSE d.status]

\* Device.mark_offline: counts the failure; at the threshold the status is
\* set to OFFLINE, whatever it was
mark_offline(d) ==
    LET n == d.consecutive_failures + 1
    IN  [d EXCEPT !.consecutive_failures = n,
                  !.status = IF n >= OfflineThreshold THEN OFFLINE ELSE d.status]

\* Device.activate
activate(d) == [d EXCEPT !.status = ACTIVE, !.consecutive_failures = 0]

\* Device.decommission
decommission(d) == [d EXCEPT !.status = DECOMMISSIONED]

\* Device.set_maintenance
set_maintenance(d) == [d EXCEPT !.status = MAINTENANCE]

(***************************************************************************)
(* The ORM session of a request: the row as loaded and the object as the   *)
(* handler changed it.  A flush writes the attributes whose value differs  *)
(* from the loaded one, and only those.                                    *)
(***************************************************************************)
IdleSession == [pc |-> "idle", loaded |-> NoRow, obj |-> NoRow]

Flush(row, loaded, obj) ==
    [f \in DOMAIN row |-> IF obj[f] # loaded[f] THEN obj[f] ELSE row[f]]

Max(a, b) == IF a >= b THEN a ELSE b

\* download_playlist_content is not running.  Three fields are history: the
\* downloads the running call has started, the assets that were cached when
\* it began, and the playlist of the last call that returned True (in this
\* run of the process or in one before it)
NoDownload == [playlist |-> NoPlaylist, shuffle |-> FALSE, i |-> 0,
               success |-> TRUE, fetches |-> 0, had |-> {}, synced |-> NoPlaylist]

\* the playback thread is not created
NoPlayback == [pc |-> "none", playlist |-> NoPlaylist, shuffle |-> FALSE,
               current |-> NoPlaylist, index |-> 0, shown |-> None, sleep |-> 0,
               beat |-> FALSE]

\* the seconds display_playlist_item sleeps after a show that succeeded:
\* item.get("duration", 10) on the item dict that start() built
DefaultDuration == 10
duration(item) ==
    IF "duration" \in DOMAIN item THEN item["duration"] ELSE DefaultDuration

(***************************************************************************)
(* The schedule of a playlist (backend/app/models/playlist.py).            *)
(*                                                                         *)
(* Instants are hours counted from a Monday 00:00 of the server's local    *)
(* zone, which is taken to be UTC; a timezone is its offset in hours.  A   *)
(* start_date or end_date string parses to an instant that is aware (it    *)
(* carries an offset or Z) or naive.  An "HH:MM" string is the sequence of  *)
(* its characters, a digit by its value and the colon by 10, which orders   *)
(* them as their character codes do.                                        *)
(***************************************************************************)
\* the timezones of a schedule: UTC and the default America/New_York
Timezones == {0, -5}

\* the instants of an evaluation: Tuesday 10:00, Tuesday 18:00, Saturday 10:00
Instants == {34, 42, 130}

\* parsed start_date and end_date values: before, between and after the instants
Dates == [given : {TRUE}, t : {0, 40, 200}, aware : BOOLEAN]

\* schedule_config without the key
NoDate == [given |-> FALSE, t |-> 0, aware |-> FALSE]

\* the "HH:MM" strings of the configured ranges
HHMM(h) == <<h \div 10, h % 10, 10, 0, 0>>
TimeRanges ==
    {<<>>,
     <<[start |-> HHMM(9), end |-> HHMM(17)]>>,
     <<[start |-> HHMM(17), end |-> HHMM(9)]>>}

Recurrences == [given : {TRUE}, days_of_week : {{}, 1..5}, time_ranges : TimeRanges]

\* schedule_config without a recurrence
NoRecurrence == [given |-> FALSE, days_of_week |-> {}, time_ranges |-> <<>>]

\* Playlist.schedule_config
ScheduleConfigs ==
    [start_date : Dates \cup {NoDate}, end_date : Dates \cup {NoDate},
     recurrence : Recurrences \cup {NoRecurrence}, timezone : Timezones]

NoSchedule ==
    [start_date |-> NoDate, end_date |-> NoDate, recurrence |-> NoRecurrence,
     timezone |-> 0]

NoEval ==
    [op |-> "init", cfg |-> NoSchedule, is_active |-> FALSE, now |-> 0, result |-> None]

\* str <= str of Python on two strings
RECURSIVE StrLeq(_, _)
StrLeq(s, t) ==
    IF s = <<>> THEN TRUE
    ELSE IF t = <<>> THEN FALSE
    ELSE IF Head(s) # Head(t) THEN Head(s) < Head(t)
    ELSE StrLeq(Tail(s), Tail(t))

\* now.astimezone(tz): the local hour count, its isoweekday() and its
\* strftime("%H:%M")
LocalTime(t, tz) == t + tz
IsoWeekday(t) == ((t \div 24) % 7) + 1
StrfHHMM(t) == HHMM(t % 24)

\* Playlist.has_schedule
has_schedule(cfg) == cfg.start_date.given

\* Playlist._check_recurrence
check_recurrence(t, cfg) ==
    LET local == LocalTime(t, cfg.timezone)
        rec == cfg.recurrence
        current_time == StrfHHMM(local)
    IN  IF rec.days_of_week # {} /\ IsoWeekday(local) \notin rec.days_of_week
        THEN FALSE
        ELSE IF rec.time_ranges # <<>>
             THEN \E i \in DOMAIN rec.time_ranges :
                     /\ StrLeq(rec.time_ranges[i].start, current_time)
                     /\ StrLeq(current_time, rec.time_ranges[i].end)
             ELSE TRUE

\* is_scheduled_now without the test of the end date
is_scheduled_now_no_end(cfg, is_active, t) ==
    IF ~has_schedule(cfg) \/ ~is_active THEN "not_live"
    ELSE IF cfg.start_date.aware THEN "error"
    ELSE IF t < cfg.start_date.t THEN "not_live"
    ELSE IF cfg.recurrence.given
         THEN (IF check_recurrence(t, cfg) THEN "live" ELSE "not_live")
    ELSE "live"

\* Playlist.is_scheduled_now at the instant t = datetime.now(), a naive
\* datetime: comparing it with an aware start or end raises TypeError
is_scheduled_now(cfg, is_active, t) ==
    IF ~has_schedule(cfg) \/ ~is_active THEN "not_live"
    ELSE IF cfg.start_date.aware THEN "error"
    ELSE IF t < cfg.start_date.t THEN "not_live"
    ELSE IF cfg.end_date.given /\ cfg.end_date.aware THEN "error"
    ELSE IF cfg.end_date.given /\ t > cfg.end_date.t THEN "not_live"
    ELSE IF cfg.recurrence.given
         THEN (IF check_recurrence(t, cfg) THEN "live" ELSE "not_live")
    ELSE "live"

(***************************************************************************)
(* The items of a playlist (backend/app/api/v1/playlists.py and            *)
(* backend/app/models/playlist.py).  One playlist is edited; its rows of   *)
(* playlist_items are records of id, position and duration_seconds.  The   *)
(* session does not autoflush (db/base.py:44): what a handler changes      *)
(* reaches the table at its commit, the UPDATEs of a table before its      *)
(* DELETEs, one statement per row, in the order of the primary keys, which *)
(* are random UUIDs.  uq_playlist_position is checked at every statement;  *)
(* a violation fails the request and rolls its changes back.               *)
(***************************************************************************)
\* total_duration_sec IS NULL
NoDuration == -1
\* PlaylistItemCreate.position is absent
NoPosition == -1

\* the primary keys of the rows
ItemIds == 1..MaxRows
\* the positions a request can name: Field(None, ge=0)
Positions == 0..MaxRows

\* Playlist(item_count=0, shuffle=data.shuffle, ...) of create_playlist:
\* total_duration_sec is nullable and not set, shuffle is False unless the
\* request says otherwise
NewPlaylist == [item_count |-> 0, total_duration_sec |-> NoDuration,
                shuffle |-> FALSE]

\* the orders in which the rows with the ids S can be written
Orders(S) ==
    {o \in [1..Cardinality(S) -> S] : \A i, j \in DOMAIN o : o[i] = o[j] => i = j}

\* the UPDATE statements of a flush in the given order, each checked against
\* uq_playlist_position: TRUE when none of them meets a row of its position
RECURSIVE ApplyUpdates(_, _)
ApplyUpdates(rows, updates) ==
    IF updates = <<>> THEN TRUE
    ELSE LET u == Head(updates)
             r == CHOOSE x \in rows : x.id = u.id
         IN  IF \E q \in rows : q.id # u.id /\ q.position = u.position
             THEN FALSE
             ELSE ApplyUpdates((rows \ {r}) \cup {[r EXCEPT !.position = u.position]},
                               Tail(updates))

\* the results a flush can have that moves the rows to the positions of
\* target (the same rows, some with a new position)
FlushResults(rows, target) ==
    LET changed == {r.id : r \in target \ rows}
        NewPos(i) == (CHOOSE x \in target : x.id = i).position
    IN  {ApplyUpdates(rows, [k \in DOMAIN o |-> [id |-> o[k], position |-> NewPos(o[k])]]) :
            o \in Orders(changed)}

\* select(PlaylistItem).order_by(PlaylistItem.position)
RECURSIVE OrderByPosition(_)
OrderByPosition(rows) ==
    IF rows = {} THEN <<>>
    ELSE LET r == CHOOSE x \in rows : \A q \in rows : x.position <= q.position
         IN  <<r>> \o OrderByPosition(rows \ {r})

\* remove_playlist_item, lines 521-529: the rows as the table has them (the
\* deleted one is still there, its DELETE is not flushed), enumerated from 0
\* in position order; a row behind the deleted item takes its number
Renumbered(rows, item) ==
    LET ordered == OrderByPosition(rows)
    IN  {[ordered[k] EXCEPT !.position = IF @ > item.position THEN k - 1 ELSE @] :
            k \in DOMAIN ordered}

\* Playlist.reorder_items: the row of each id of the list that is in the
\* playlist takes the index of the id in the list, the last one if the id
\* is there twice
Reordered(rows, item_ids) ==
    {IF \E k \in DOMAIN item_ids : item_ids[k] = r.id
     THEN [r EXCEPT !.position =
              (CHOOSE k \in DOMAIN item_ids :
                  /\ item_ids[k] = r.id
                  /\ \A j \in DOMAIN item_ids : item_ids[j] = r.id => j <= k) - 1]
     ELSE r : r \in rows}

\* sum(item.duration_seconds for item in self.items)
RECURSIVE SumDurations(_)
SumDurations(rows) ==
    IF rows = {} THEN 0
    ELSE LET r == CHOOSE x \in rows : TRUE
         IN  r.duration_seconds + SumDurations(rows \ {r})

Init ==
    /\ registered = FALSE
    /\ device = NoRow
    /\ now = 1
    /\ sess = [r \in Requests |-> IdleSession]
    /\ lastOp = "init"
    /\ prev = NoRow
    /\ hbSeen = Null
    /\ failsSince = 0
    /\ device_playlists = {}
    /\ assignedEver = {}
    /\ assignedLast = None
    /\ lastEval = NoEval
    /\ playlist = NewPlaylist
    /\ playlist_items = {}
    /\ lastEdit = [op |-> "init", result |-> None]
    /\ cnow = 1
    /\ metadata = <<>>
    /\ files = [a \in Assets |-> NoFile]
    /\ saved = <<>>
    /\ lastCall = [op |-> "init", asset |-> None, result |-> None]
    /\ prevMeta = <<>>
    /\ current_playlist = NoPlaylist
    /\ last_fetch_time = Null
    /\ lastSync = [op |-> "init", result |-> None, arg |-> 0, item |-> 0, new |-> NoPlaylist]
    /\ pc = "constructed"
    /\ running = FALSE
    /\ display = "none"
    /\ dl = NoDownload
    /\ play = NoPlayback

\* history bookkeeping of an operation on the device row
Record(op) ==
    /\ lastOp' = op
    /\ prev' = device

(***************************************************************************)
(* Operations of the registry, each a whole request.                       *)
(***************************************************************************)
\* the clock advances
Tick ==
    /\ now < MaxTime
    /\ now' = now + 1
    /\ lastOp' = "tick"
    /\ prev' = device
    /\ UNCHANGED <<registered, device, sess, hbSeen, failsSince>>
    /\ UNCHANGED <<storeVars, syncVars, clientVars, planningVars>>

\* POST /devices: the hardware id is not registered yet
create_device ==
    /\ ~registered
    /\ registered' = TRUE
    /\ device' = NewDevice
    /\ Record("create_device")
    /\ UNCHANGED <<now, sess, hbSeen, failsSince>>
    /\ UNCHANGED <<storeVars, syncVars, clientVars, planningVars>>

\* schedule_config.priority of the playlists in the playlist table
Priority(p) == IF p = "p1" THEN 2 ELSE 1

\* an assignment that inserts a device_playlists row at every call
assign_playlist_always_insert(p) ==
    /\ registered
    /\ device' = [device EXCEPT !.current_playlist_id = p]
    /\ device_playlists' =
          device_playlists \cup {[playlist_id |-> p, assigned_at |-> now]}
    /\ assignedEver' = assignedEver \cup {p}
    /\ assignedLast' = p
    /\ UNCHANGED <<registered, now, sess, lastOp, prev, hbSeen, failsSince, lastEval>>
    /\ UNCHANGED <<storeVars, syncVars, clientVars, editVars>>

\* POST /devices/{id}/playlists: the operator assigns playlist p, a playlist
\* that has items; it replaces the device's current_playlist_id, and a
\* device_playlists row is made when the pair has none yet
assign_playlist_to_device(p) ==
    /\ registered
    /\ device' = [device EXCEPT !.current_playlist_id = p]
    /\ device_playlists' =
          IF \E r \in device_playlists : r.playlist_id = p
          THEN device_playlists
          ELSE device_playlists \cup {[playlist_id |-> p, assigned_at |-> now]}
    /\ assignedEver' = assignedEver \cup {p}
    /\ assignedLast' = p
    /\ UNCHANGED <<registered, now, sess, lastOp, prev, hbSeen, failsSince, lastEval>>
    /\ UNCHANGED <<storeVars, syncVars, clientVars, editVars>>

\* device_heartbeat without the check of the device id and the 404
device_heartbeat_unchecked(device_id, data) ==
    /\ registered
    /\ device' = Heartbeat(device, now, data)
    /\ Record("heartbeat")
    /\ hbSeen' = Max(hbSeen, now)
    /\ failsSince' = 0
    /\ UNCHANGED <<registered, now, sess>>
    /\ UNCHANGED <<storeVars, syncVars, clientVars, planningVars>>

\* POST /devices/{device_id}/heartbeat, processed alone: a device_id that is
\* no UUID is answered 400, one that selects no device 404; otherwise
\* update_heartbeat, the versions, commit
device_heartbeat(device_id, data) ==
    /\ IF device_id \in MalformedIds
       THEN /\ Record("heartbeat_400")
            /\ UNCHANGED <<device, hbSeen, failsSince>>
       ELSE IF ~registered \/ device_id # TheDevice
       THEN /\ Record("heartbeat_404")
            /\ UNCHANGED <<device, hbSeen, failsSince>>
       ELSE /\ device' = Heartbeat(device, now, data)
            /\ Record("heartbeat")
            /\ hbSeen' = Max(hbSeen, now)
            /\ failsSince' = 0
    /\ UNCHANGED <<registered, now, sess>>
    /\ UNCHANGED <<storeVars, syncVars, clientVars, planningVars>>

\* the liveness checker found the device silent: Device.mark_offline, commit
liveness_failure ==
    /\ registered
    /\ device.consecutive_failures < MaxFailures
    /\ failsSince < MaxFailures
    /\ device' = mark_offline(device)
    /\ Record("mark_offline")
    /\ failsSince' = failsSince + 1
    /\ UNCHANGED <<registered, now, sess, hbSeen>>
    /\ UNCHANGED <<storeVars, syncVars, clientVars, planningVars>>

\* an operator activates the device
op_activate ==
    /\ registered
    /\ device' = activate(device)
    /\ Record("activate")
    /\ UNCHANGED <<registered, now, sess, hbSeen, failsSince>>
    /\ UNCHANGED <<storeVars, syncVars, clientVars, planningVars>>

\* an operator decommissions the device
op_decommission ==
    /\ registered
    /\ device' = decommission(device)
    /\ Record("decommission")
    /\ UNCHANGED <<registered, now, sess, hbSeen, failsSince>>
    /\ UNCHANGED <<storeVars, syncVars, clientVars, planningVars>>

\* an operator puts the device into maintenance
op_set_maintenance ==
    /\ registered
    /\ device' = set_maintenance(device)
    /\ Record("set_maintenance")
    /\ UNCHANGED <<registered, now, sess, hbSeen, failsSince>>
    /\ UNCHANGED <<storeVars, syncVars, clientVars, planningVars>>

\* PATCH /devices/{id}: data.status is absent (None) or one of the five
\* statuses the schema's pattern admits
update_device ==
    /\ registered
    /\ \E s \in DeviceStatus \cup {None} :
          device' = IF s # None THEN [device EXCEPT !.status = s] ELSE device
    /\ Record("update_device")
    /\ UNCHANGED <<registered, now, sess, hbSeen, failsSince>>
    /\ UNCHANGED <<storeVars, syncVars, clientVars, planningVars>>

(***************************************************************************)
(* Heartbeat requests that overlap: the handler stamps its object when it  *)
(* runs update_heartbeat (devices.py:648) and the row is written when its  *)
(* commit reaches the database (devices.py:666).  Nothing orders the       *)
(* commits of two requests by their stamps.                                *)
(***************************************************************************)
heartbeat_load(r) ==
    /\ registered
    /\ sess[r].pc = "idle"
    /\ sess' = [sess EXCEPT ![r] =
                  [pc |-> "dirty", loaded |-> device,
                   obj |-> Heartbeat(device, now, BareHeartbeat)]]
    /\ lastOp' = "heartbeat_load"
    /\ prev' = device
    /\ UNCHANGED <<registered, device, now, hbSeen, failsSince>>
    /\ UNCHANGED <<storeVars, syncVars, clientVars, planningVars>>

heartbeat_commit(r) ==
    /\ sess[r].pc = "dirty"
    /\ device' = Flush(device, sess[r].loaded, sess[r].obj)
    /\ sess' = [sess EXCEPT ![r] = IdleSession]
    /\ Record("heartbeat")
    /\ hbSeen' = Max(hbSeen, sess[r].obj.last_heartbeat)
    /\ failsSince' = 0
    /\ UNCHANGED <<registered, now>>
    /\ UNCHANGED <<storeVars, syncVars, clientVars, planningVars>>

\* an evaluation of Playlist.is_scheduled_now, a pure function of the
\* playlist and the clock: one evaluation per behaviour covers its inputs
evaluate_schedule ==
    /\ lastEval = NoEval
    /\ \E cfg \in ScheduleConfigs, is_active \in BOOLEAN, t \in Instants :
          lastEval' = [op |-> "is_scheduled_now", cfg |-> cfg, is_active |-> is_active,
                       now |-> t, result |-> is_scheduled_now(cfg, is_active, t)]
    /\ UNCHANGED <<registered, device, now, sess, lastOp, prev, hbSeen, failsSince,
                   device_playlists, assignedEver, assignedLast>>
    /\ UNCHANGED <<storeVars, syncVars, clientVars, editVars>>

(***************************************************************************)
(* Requests on the items of the playlist.                                  *)
(***************************************************************************)
\* POST /playlists/{id}/items: the item goes to data.position, or to
\* item_count when the request names none; item_count is incremented; the
\* INSERT fails on a position that is taken
add_playlist_item(pos, dur) ==
    /\ Cardinality(playlist_items) < MaxRows
    /\ LET position == IF pos # NoPosition THEN pos ELSE playlist.item_count
           id == CHOOSE i \in ItemIds : \A r \in playlist_items : r.id # i
           item == [id |-> id, position |-> position, duration_seconds |-> dur]
       IN  IF \E r \in playlist_items : r.position = position
           THEN /\ UNCHANGED <<playlist, playlist_items>>
                /\ lastEdit' = [op |-> "add", result |-> "integrity_error"]
           ELSE /\ playlist_items' = playlist_items \cup {item}
                /\ playlist' = [playlist EXCEPT !.item_count = @ + 1]
                /\ lastEdit' = [op |-> "add", result |-> "created"]
    /\ UNCHANGED <<registered, device, now, sess, lastOp, prev, hbSeen, failsSince,
                   device_playlists, assignedEver, assignedLast, lastEval>>
    /\ UNCHANGED <<storeVars, syncVars, clientVars>>

\* DELETE /playlists/{id}/items/{item_id}: 404 without the row; else the row
\* is deleted, item_count decremented and the rows behind it renumbered
remove_playlist_item(id) ==
    /\ IF ~\E r \in playlist_items : r.id = id
       THEN /\ UNCHANGED <<playlist, playlist_items>>
            /\ lastEdit' = [op |-> "remove", result |-> "not_found"]
       ELSE LET item == CHOOSE r \in playlist_items : r.id = id
                target == Renumbered(playlist_items, item)
            IN  \E ok \in FlushResults(playlist_items, target) :
                   IF ok
                   THEN /\ playlist_items' = {r \in target : r.id # id}
                        /\ playlist' = [playlist EXCEPT !.item_count = @ - 1]
                        /\ lastEdit' = [op |-> "remove", result |-> "deleted"]
                   ELSE /\ UNCHANGED <<playlist, playlist_items>>
                        /\ lastEdit' = [op |-> "remove", result |-> "integrity_error"]
    /\ UNCHANGED <<registered, device, now, sess, lastOp, prev, hbSeen, failsSince,
                   device_playlists, assignedEver, assignedLast, lastEval>>
    /\ UNCHANGED <<storeVars, syncVars, clientVars>>

\* Playlist.reorder_items on a list of item ids, and the commit of the
\* session
reorder_items(item_ids) ==
    /\ LET target == Reordered(playlist_items, item_ids)
       IN  \E ok \in FlushResults(playlist_items, target) :
              IF ok
              THEN /\ playlist_items' = target
                   /\ lastEdit' = [op |-> "reorder", result |-> "reordered"]
              ELSE /\ UNCHANGED playlist_items
                   /\ lastEdit' = [op |-> "reorder", result |-> "integrity_error"]
    /\ UNCHANGED playlist
    /\ UNCHANGED <<registered, device, now, sess, lastOp, prev, hbSeen, failsSince,
                   device_playlists, assignedEver, assignedLast, lastEval>>
    /\ UNCHANGED <<storeVars, syncVars, clientVars>>

\* update_playlist with a request that carries shuffle only
update_playlist(shuffle) ==
    /\ playlist' = [playlist EXCEPT !.shuffle = shuffle]
    /\ lastEdit' = [op |-> "update", result |-> "updated"]
    /\ UNCHANGED playlist_items
    /\ UNCHANGED <<registered, device, now, sess, lastOp, prev, hbSeen, failsSince,
                   device_playlists, assignedEver, assignedLast, lastEval>>
    /\ UNCHANGED <<storeVars, syncVars, clientVars>>

(***************************************************************************)
(* The content cache (device-client/src/content_manager.py).               *)
(*                                                                         *)
(* An asset has one content type on the server, so get_cache_path gives    *)
(* one path per asset and a path is named by its asset id.  A file is      *)
(* modelled by its size: a download writes the asset's bytes from the      *)
(* start, so the size tells how much of the asset the file holds.  Sizes   *)
(* are in GB, the unit of max_cache_size_gb.                               *)
(***************************************************************************)
\* hashlib.sha256 over the file: the bytes hashed are the first n GB of asset a
Checksum(a, n) == <<a, n>>

\* dict access on the ordered dict ContentManager.metadata
Keys(md) == {md[i].asset_id : i \in DOMAIN md}
HasKey(md, a) == a \in Keys(md)
Get(md, a) == md[CHOOSE i \in DOMAIN md : md[i].asset_id = a]
\* md[a] = e: a key already there keeps its place, a new key goes last
Put(md, e) ==
    IF HasKey(md, e.asset_id)
    THEN [i \in DOMAIN md |-> IF md[i].asset_id = e.asset_id THEN e ELSE md[i]]
    ELSE Append(md, e)
\* del md[a]
Del(md, a) == SelectSeq(md, LAMBDA e : e.asset_id # a)

\* ContentManager.is_cached: the key is in the index and its file exists
is_cached(md, fs, a) == HasKey(md, a) /\ fs[a] # NoFile

\* ContentManager.get_cache_size_gb: the sizes on disk of the indexed files that exist
RECURSIVE get_cache_size(_, _)
get_cache_size(md, fs) ==
    IF md = <<>> THEN 0
    ELSE (IF fs[Head(md).asset_id] # NoFile THEN fs[Head(md).asset_id] ELSE 0)
         + get_cache_size(Tail(md), fs)

\* sorted(self.metadata.items(), key=last_accessed): a stable sort
RECURSIVE SortedByAccess(_)
SortedByAccess(md) ==
    IF md = <<>> THEN <<>>
    ELSE LET rest == SortedByAccess(SubSeq(md, 1, Len(md) - 1))
             e == md[Len(md)]
             before == SelectSeq(rest, LAMBDA x : x.last_accessed <= e.last_accessed)
             after == SelectSeq(rest, LAMBDA x : x.last_accessed > e.last_accessed)
         IN  before \o <<e>> \o after

\* ContentManager.remove_content on a key of the index: unlink the file if it
\* exists, delete the entry
RemoveEntry(st, a) ==
    [md |-> Del(st.md, a), fs |-> [st.fs EXCEPT ![a] = NoFile]]

\* the loop of enforce_cache_limit over the sorted entries: stop at the first
\* entry whose removal would bring the size within the limit, remove the
\* entries before it
RECURSIVE EvictLoop(_, _, _)
EvictLoop(items, size, st) ==
    IF items = <<>> THEN st
    ELSE LET e == Head(items)
         IN  IF size - e.file_size <= MaxCacheSize
             THEN st
             ELSE EvictLoop(Tail(items), size - e.file_size, RemoveEntry(st, e.asset_id))

\* ContentManager.enforce_cache_limit
EnforceLimit(md, fs) ==
    LET size == get_cache_size(md, fs)
    IN  IF size <= MaxCacheSize
        THEN [md |-> md, fs |-> fs]
        ELSE EvictLoop(SortedByAccess(md), size, [md |-> md, fs |-> fs])

\* what a download attempt can meet: the asset is unknown to the server
\* (get_content gives None), its data carries no file_path, the request fails
\* before the file is opened, the stream breaks after some chunks, the stream
\* ends without an error after fewer bytes than the asset has (nothing compares
\* the bytes written with content-length or asset_file_size), or all goes well
DownloadOutcomes ==
    {"not_found", "no_file_path", "request_error", "stream_error", "short_body", "ok"}

\* the sizes the file of asset a can have when the stream broke: whole chunks,
\* not all of them
PartialSizes(a) == {n \in 0..(AssetSize(a) - 1) : n % ChunkSize = 0}

\* the sizes the file can have after an attempt with the given outcome: a
\* broken stream leaves any partial size, a short body at least one chunk
ReceivedSizes(a, outcome) ==
    CASE outcome = "stream_error" -> PartialSizes(a)
      [] outcome = "short_body" -> PartialSizes(a) \ {0}
      [] OTHER -> {AssetSize(a)}

\* the file at the cache path of asset a holds a part of the asset only
IsPartial(fs, a) == fs[a] # NoFile /\ fs[a] # AssetSize(a)

\* history bookkeeping of a ContentManager call
Called(op, a, res) ==
    /\ lastCall' = [op |-> op, asset |-> a, result |-> res]
    /\ prevMeta' = metadata

\* the device's clock advances
ClientTick ==
    /\ cnow < MaxClock
    /\ cnow' = cnow + 1
    /\ Called("tick", None, None)
    /\ UNCHANGED <<metadata, files, saved>>
    /\ UNCHANGED <<serverVars, syncVars, clientVars>>

\* get_cached that stamps every entry of the index on a hit
get_cached_stamps_all(a) ==
    /\ \/ /\ HasKey(metadata, a)
          /\ UNCHANGED <<metadata, saved>>
          /\ Called("get_cached", a, "raised")
       \/ IF is_cached(metadata, files, a)
          THEN /\ metadata' = [i \in DOMAIN metadata |->
                                  [metadata[i] EXCEPT !.last_accessed = cnow]]
               /\ saved' = metadata'
               /\ Called("get_cached", a, "hit")
          ELSE /\ UNCHANGED <<metadata, saved>>
               /\ Called("get_cached", a, "miss")
    /\ UNCHANGED <<cnow, files>>
    /\ UNCHANGED <<serverVars, syncVars, clientVars>>

\* ContentManager.get_cached / get_content_for_display: a hit stamps
\* last_accessed and saves the index, a miss changes nothing; the look at the
\* file of an indexed asset (Path.exists in is_cached) can raise an OSError,
\* which the caller gets
get_cached(a) ==
    /\ \/ /\ HasKey(metadata, a)
          /\ UNCHANGED <<metadata, saved>>
          /\ Called("get_cached", a, "raised")
       \/ IF is_cached(metadata, files, a)
          THEN /\ metadata' = Put(metadata,
                                  [Get(metadata, a) EXCEPT !.last_accessed = cnow])
               /\ saved' = metadata'
               /\ Called("get_cached", a, "hit")
          ELSE /\ UNCHANGED <<metadata, saved>>
               /\ Called("get_cached", a, "miss")
    /\ UNCHANGED <<cnow, files>>
    /\ UNCHANGED <<serverVars, syncVars, clientVars>>

\* ContentManager.download_content with DeviceAPIClient.download_content, as
\* a function of the index md, the files fs, the asset, what the attempt
\* meets, the size n written when the stream broke, and the time t: the
\* stream is written straight to the cache path, opened with "wb"; the entry
\* is made after the stream ended; any exception is caught and None returned
Download(md, fs, a, outcome, n, t) ==
    CASE outcome \in {"not_found", "no_file_path", "request_error"} ->
            [md |-> md, fs |-> fs, cached |-> FALSE]
      [] outcome = "stream_error" ->
            [md |-> md, fs |-> [fs EXCEPT ![a] = n], cached |-> FALSE]
      [] outcome = "short_body" ->
            [md |-> Put(md, [asset_id |-> a,
                             file_size |-> n,
                             last_accessed |-> t,
                             checksum |-> Checksum(a, n)]),
             fs |-> [fs EXCEPT ![a] = n],
             cached |-> TRUE]
      [] OTHER ->
            [md |-> Put(md, [asset_id |-> a,
                             file_size |-> AssetSize(a),
                             last_accessed |-> t,
                             checksum |-> Checksum(a, AssetSize(a))]),
             fs |-> [fs EXCEPT ![a] = AssetSize(a)],
             cached |-> TRUE]

\* a call of ContentManager.download_content; the index is saved when the
\* entry was made
download_content(a) ==
    /\ \E outcome \in DownloadOutcomes : \E n \in ReceivedSizes(a, outcome) :
          LET st == Download(metadata, files, a, outcome, n, cnow)
          IN  /\ metadata' = st.md
              /\ files' = st.fs
              /\ saved' = IF st.cached THEN st.md ELSE saved
              /\ Called("download_content", a, IF st.cached THEN "cached" ELSE "failed")
    /\ UNCHANGED cnow
    /\ UNCHANGED <<serverVars, syncVars, clientVars>>

\* ContentManager.remove_content
remove_content(a) ==
    /\ IF HasKey(metadata, a)
       THEN LET st == RemoveEntry([md |-> metadata, fs |-> files], a)
            IN  /\ metadata' = st.md
                /\ files' = st.fs
                /\ saved' = metadata'
                /\ Called("remove_content", a, "removed")
       ELSE /\ UNCHANGED <<metadata, files, saved>>
            /\ Called("remove_content", a, "absent")
    /\ UNCHANGED cnow
    /\ UNCHANGED <<serverVars, syncVars, clientVars>>

\* ContentManager.enforce_cache_limit; every removal saves the index
enforce_cache_limit ==
    /\ LET st == EnforceLimit(metadata, files)
       IN  /\ metadata' = st.md
           /\ files' = st.fs
           /\ saved' = IF st.md # metadata THEN st.md ELSE saved
    /\ Called("enforce_cache_limit", None,
              IF get_cache_size(metadata, files) <= MaxCacheSize THEN "within" ELSE "over")
    /\ UNCHANGED cnow
    /\ UNCHANGED <<serverVars, syncVars, clientVars>>

\* ContentManager._load_metadata on the entries of cache_metadata.json, in
\* the order of the file: each is put into the empty dict under its key; no
\* file is looked at
RECURSIVE LoadMetadata(_, _)
LoadMetadata(md, data) ==
    IF data = <<>> THEN md
    ELSE LoadMetadata(Put(md, Head(data)), Tail(data))

\* a restart that finds no index
LoadedIndexEmpty(data) == <<>>

\* ContentManager.__init__, lines 57-58: the index starts empty and takes
\* what the file holds
LoadedIndex(data) == LoadMetadata(<<>>, data)

\* the process ends, at any point, and a new one is started on the same
\* cache directory: the client and its parts are constructed anew, and the
\* ContentManager loads its index; the files and cache_metadata.json stay
restart ==
    /\ metadata' = LoadedIndex(saved)
    /\ Called("restart", None, None)
    /\ UNCHANGED <<cnow, files, saved>>
    /\ current_playlist' = NoPlaylist
    /\ last_fetch_time' = Null
    /\ lastSync' = [op |-> "init", result |-> None, arg |-> 0, item |-> 0,
                    new |-> NoPlaylist]
    /\ pc' = "constructed"
    /\ running' = FALSE
    /\ display' = "none"
    /\ dl' = [NoDownload EXCEPT !.synced = dl.synced]
    /\ play' = NoPlayback
    /\ UNCHANGED serverVars

(***************************************************************************)
(* The playlist fetcher (device-client/src/playlist_fetcher.py).           *)
(***************************************************************************)
\* what the assignment read can give PlaylistFetcher.fetch_assigned_playlist:
\* a playlist, a 404 (no assignment), an HTTP error (get_assigned_playlist
\* answers both with None), or an exception (authenticate fails, a field of
\* the response is missing)
FetchFailures == {"no_assignment", "http_error", "exception"}

\* the outcomes of the assignment read GET /devices/{id}/playlists for the
\* device row d: without current_playlist_id a 404, with one the playlist of
\* that id as the playlist table has it at the time; any read can fail
Responses(d) ==
    {[kind |-> "playlist", playlist |-> p] :
        p \in {q \in Playlists : q.id = d.current_playlist_id}}
      \cup {[kind |-> k, playlist |-> NoPlaylist] :
              k \in IF d.current_playlist_id = None
                    THEN FetchFailures
                    ELSE FetchFailures \ {"no_assignment"}}

\* PlaylistFetcher.fetch_assigned_playlist: the playlist that becomes
\* current_playlist and is returned; on every failure that is None
Fetched(resp) == IF resp.kind \in FetchFailures THEN NoPlaylist ELSE resp.playlist

\* the value fetch_assigned_playlist leaves in current_playlist
CurrentAfterFetch(cur, resp) == Fetched(resp)

\* a call of PlaylistFetcher.fetch_assigned_playlist
fetch_assigned_playlist ==
    /\ \E resp \in Responses(device) :
          /\ current_playlist' = CurrentAfterFetch(current_playlist, resp)
          /\ last_fetch_time' = IF resp.kind \in FetchFailures THEN last_fetch_time ELSE cnow
          /\ lastSync' = [op |-> "fetch",
                          result |-> IF resp.kind \in FetchFailures THEN None ELSE "playlist",
                          arg |-> 0, item |-> 0, new |-> NoPlaylist]
    /\ UNCHANGED <<serverVars, storeVars, clientVars>>

\* PlaylistFetcher.clear_playlist
clear_playlist ==
    /\ current_playlist' = NoPlaylist
    /\ lastSync' = [op |-> "clear", result |-> None, arg |-> 0, item |-> 0, new |-> NoPlaylist]
    /\ UNCHANGED last_fetch_time
    /\ UNCHANGED <<serverVars, storeVars, clientVars>>

\* PlaylistFetcher.get_next_item on the item at position p (1 is the first;
\* item ids are the server's primary keys, so an id names one position, and
\* an id that is not in the playlist is a position outside of it): the
\* position of the item returned, 0 for None
NextItem(pl, p) ==
    LET n == Len(pl.items)
    IN  IF pl = NoPlaylist \/ n = 0 THEN 0
        ELSE IF p \in 1..n
             THEN IF pl.loop_mode THEN (p % n) + 1
                  ELSE IF p < n THEN p + 1
                  ELSE 0
             ELSE 1

\* a call of PlaylistFetcher.get_next_item
get_next_item(p) ==
    /\ lastSync' = [op |-> "get_next_item",
                    result |-> IF NextItem(current_playlist, p) = 0 THEN None ELSE "item",
                    arg |-> p, item |-> NextItem(current_playlist, p), new |-> NoPlaylist]
    /\ UNCHANGED <<current_playlist, last_fetch_time>>
    /\ UNCHANGED <<serverVars, storeVars, clientVars>>

\* Playlist.item_count of a fetched playlist: the response carries the
\* playlist row's item_count next to the rows of its items, and the server
\* counts the rows (add_playlist_item, remove_playlist_item)
ItemCount(pl) == Len(pl.items)

\* has_playlist_changed that compares the content of the items only
has_playlist_changed_assets_only(cur, new) ==
    IF cur = NoPlaylist THEN new # NoPlaylist
    ELSE IF new = NoPlaylist THEN TRUE
    ELSE IF cur.id # new.id THEN TRUE
    ELSE IF ItemCount(cur) # ItemCount(new) THEN TRUE
    ELSE IF Len(cur.items) # Len(new.items) THEN TRUE
    ELSE \E i \in DOMAIN cur.items : cur.items[i].asset_id # new.items[i].asset_id

\* PlaylistFetcher.has_playlist_changed, with cur = self.current_playlist
HasPlaylistChanged(cur, new) ==
    IF cur = NoPlaylist THEN new # NoPlaylist
    ELSE IF new = NoPlaylist THEN TRUE
    ELSE IF cur.id # new.id THEN TRUE
    ELSE IF ItemCount(cur) # ItemCount(new) THEN TRUE
    ELSE IF Len(cur.items) # Len(new.items) THEN TRUE
    ELSE \E i \in DOMAIN cur.items :
            \/ cur.items[i].asset_id # new.items[i].asset_id
            \/ cur.items[i].duration_seconds # new.items[i].duration_seconds

\* a call of PlaylistFetcher.has_playlist_changed on a playlist, or on None,
\* after a fetch; the result is a function of the two playlists and the call
\* changes nothing, so one call per fetch covers its inputs
has_playlist_changed(new) ==
    /\ lastSync.op = "fetch"
    /\ lastSync' = [op |-> "has_playlist_changed",
                    result |-> IF HasPlaylistChanged(current_playlist, new)
                               THEN "changed" ELSE "same",
                    arg |-> 0, item |-> 0, new |-> new]
    /\ UNCHANGED <<current_playlist, last_fetch_time>>
    /\ UNCHANGED <<serverVars, storeVars, clientVars>>

(***************************************************************************)
(* The device client (device-client/main.py): DeviceClient.start in the    *)
(* main thread, execute_playlist in the playback thread, stop() from the   *)
(* signal handler.                                                         *)
(***************************************************************************)
\* download_playlist_content where the last item decides the result
AfterItemLast(success, cached) == cached

\* download_playlist_content, line 194-196: success after an item
AfterItem(success, cached) == IF cached THEN success ELSE FALSE

\* start(): _running = True, then step 1, authenticate
start_authenticate ==
    /\ pc = "constructed"
    /\ running' = TRUE
    /\ \E ok \in BOOLEAN : pc' = IF ok THEN "init_display" ELSE "shutdown"
    /\ UNCHANGED <<display, dl, play>>
    /\ UNCHANGED <<serverVars, storeVars, syncVars>>

\* step 2, initialize_display: self.display is set, initialize() may fail
initialize_display ==
    /\ pc = "init_display"
    /\ \E ok \in BOOLEAN :
          /\ display' = IF ok THEN "initialized" ELSE "created"
          /\ pc' = IF ok THEN "fetch" ELSE "shutdown"
    /\ UNCHANGED <<running, dl, play>>
    /\ UNCHANGED <<serverVars, storeVars, syncVars>>

\* step 3, playlist_fetcher.fetch_assigned_playlist; without a playlist
\* start() returns, with one download_playlist_content begins
start_fetch ==
    /\ pc = "fetch"
    /\ \E resp \in Responses(device) :
          /\ current_playlist' = CurrentAfterFetch(current_playlist, resp)
          /\ last_fetch_time' = IF resp.kind \in FetchFailures THEN last_fetch_time ELSE cnow
          /\ lastSync' = [op |-> "fetch",
                          result |-> IF resp.kind \in FetchFailures THEN None ELSE "playlist",
                          arg |-> 0, item |-> 0, new |-> NoPlaylist]
          /\ IF resp.kind \in FetchFailures
             THEN /\ pc' = "shutdown"
                  /\ UNCHANGED dl
             ELSE /\ pc' = "download"
                  /\ dl' = [dl EXCEPT !.playlist = resp.playlist,
                                      !.shuffle = playlist.shuffle, !.i = 1,
                                      !.success = TRUE, !.fetches = 0,
                                      !.had = {a \in Assets :
                                                  is_cached(metadata, files, a)}]
    /\ UNCHANGED <<running, display, play>>
    /\ UNCHANGED <<serverVars, storeVars>>

\* step 4, one round of the loop of download_playlist_content: an item that
\* is cached is skipped, the others are downloaded with the asset data of
\* the playlist
download_item ==
    /\ pc = "download"
    /\ dl.i <= Len(dl.playlist.items)
    /\ LET a == dl.playlist.items[dl.i].asset_id
       IN  IF is_cached(metadata, files, a)
           THEN /\ dl' = [dl EXCEPT !.i = dl.i + 1]
                /\ UNCHANGED storeVars
           ELSE \E outcome \in DownloadOutcomes \ {"not_found"} :
                 \E n \in ReceivedSizes(a, outcome) :
                  LET st == Download(metadata, files, a, outcome, n, cnow)
                  IN  /\ metadata' = st.md
                      /\ files' = st.fs
                      /\ saved' = IF st.cached THEN st.md ELSE saved
                      /\ Called("download_content", a,
                                IF st.cached THEN "cached" ELSE "failed")
                      /\ dl' = [dl EXCEPT !.i = dl.i + 1,
                                          !.success = AfterItem(dl.success, st.cached),
                                          !.fetches = @ + 1]
                      /\ UNCHANGED cnow
    /\ UNCHANGED <<pc, running, display, play>>
    /\ UNCHANGED <<serverVars, syncVars>>

\* the end of step 4 and step 5: after a failed download start() returns,
\* otherwise the playback thread is started on the playlist
download_done ==
    /\ pc = "download"
    /\ dl.i > Len(dl.playlist.items)
    /\ IF dl.success
       THEN /\ pc' = "hb_check"
            /\ play' = [NoPlayback EXCEPT !.pc = "start", !.playlist = dl.playlist,
                                          !.shuffle = dl.shuffle]
            /\ dl' = [dl EXCEPT !.synced = dl.playlist]
       ELSE /\ pc' = "shutdown"
            /\ UNCHANGED <<play, dl>>
    /\ UNCHANGED <<running, display>>
    /\ UNCHANGED <<serverVars, storeVars, syncVars>>

\* the head of the heartbeat loop: while _running, send_heartbeat (every
\* error is caught there); after the loop start() goes to shutdown
\* play.beat is history: a heartbeat went out while the playback thread hung
\* in a render call
heartbeat_check ==
    /\ pc = "hb_check"
    /\ pc' = IF running THEN "hb_sleep" ELSE "shutdown"
    /\ play' = IF running /\ play.pc = "stalled" THEN [play EXCEPT !.beat = TRUE] ELSE play
    /\ UNCHANGED <<running, display, dl>>
    /\ UNCHANGED <<serverVars, storeVars, syncVars>>

\* a heartbeat timer that is served by the thread that renders
heartbeat_wake_in_render_thread ==
    /\ pc = "hb_sleep"
    /\ play.pc # "stalled"
    /\ pc' = "hb_check"
    /\ UNCHANGED <<running, display, dl, play>>
    /\ UNCHANGED <<serverVars, storeVars, syncVars>>

\* time.sleep(heartbeat_interval) in the main thread is over
heartbeat_wake ==
    /\ pc = "hb_sleep"
    /\ pc' = "hb_check"
    /\ UNCHANGED <<running, display, dl, play>>
    /\ UNCHANGED <<serverVars, storeVars, syncVars>>

\* execute_playlist up to its loop: without items it returns
play_begin ==
    /\ play.pc = "start"
    /\ pc \in {"hb_check", "hb_sleep", "shutdown"}
    /\ play' = IF play.playlist.items = <<>>
               THEN [play EXCEPT !.pc = "returned"]
               ELSE [play EXCEPT !.pc = "loop", !.current = play.playlist, !.index = 0]
    /\ UNCHANGED <<pc, running, display, dl>>
    /\ UNCHANGED <<serverVars, storeVars, syncVars>>

\* execute_playlist that stays on the last item
NextIndexNoWrap(i, n) == IF i + 1 < n THEN i + 1 ELSE i

\* execute_playlist, line 256: the index after a round
NextIndex(i, n) == (i + 1) % n

\* one round of the loop of execute_playlist: display_playlist_item, that is
\* show_playlist_item with get_content_for_display and the backend's
\* show_content (every backend catches its errors and answers True or
\* False, or its call into the display hardware does not return), then the
\* next index.  is_cached asks the file system for the file of an indexed
\* asset (Path.exists), which answers or raises an OSError (an I/O error, a
\* permission error); nothing between is_cached and the except of
\* execute_playlist catches it, and that except is outside of the loop
play_item ==
    /\ play.pc = "loop"
    /\ pc \in {"hb_check", "hb_sleep", "shutdown"}
    /\ IF ~running
       THEN /\ play' = [play EXCEPT !.pc = "returned"]
            /\ UNCHANGED storeVars
       ELSE LET items == play.playlist.items
                a == items[play.index + 1].asset_id
            IN  \/ /\ HasKey(metadata, a)
                   /\ Called("get_cached", a, "raised")
                   /\ UNCHANGED <<cnow, metadata, files, saved>>
                   /\ play' = [play EXCEPT !.pc = "failed"]
                \/ IF is_cached(metadata, files, a)
                   THEN /\ metadata' = Put(metadata,
                                           [Get(metadata, a) EXCEPT !.last_accessed = cnow])
                        /\ saved' = metadata'
                        /\ Called("get_cached", a, "hit")
                        /\ UNCHANGED <<cnow, files>>
                        /\ \E backend \in {"shown", "declined", "stalled"} :
                              play' = IF backend = "stalled"
                                      THEN [play EXCEPT !.pc = "stalled"]
                                      ELSE [play EXCEPT
                                              !.index = NextIndex(play.index, Len(items)),
                                              !.shown = IF backend = "shown" THEN a ELSE None,
                                              !.sleep = IF backend = "shown"
                                                        THEN duration(items[play.index + 1])
                                                        ELSE 0]
                   ELSE /\ Called("get_cached", a, "miss")
                        /\ UNCHANGED <<cnow, metadata, files, saved>>
                        /\ play' = [play EXCEPT !.index = NextIndex(play.index, Len(items)),
                                                !.shown = None, !.sleep = 0]
    /\ UNCHANGED <<pc, running, display, dl>>
    /\ UNCHANGED <<serverVars, syncVars>>

\* The round of the loop of execute_playlist in two steps, for the
\* specifications in which other calls on the ContentManager run while an
\* item is on the display.  First display_playlist_item up to its sleep:
\* show_playlist_item looks the asset up and hands the file to the backend;
\* when that answered True the thread sleeps for the duration, otherwise the
\* round is over at once
display_item_show ==
    /\ play.pc = "loop"
    /\ pc \in {"hb_check", "hb_sleep", "shutdown"}
    /\ IF ~running
       THEN /\ play' = [play EXCEPT !.pc = "returned"]
            /\ UNCHANGED storeVars
       ELSE LET items == play.playlist.items
                a == items[play.index + 1].asset_id
            IN  \/ /\ HasKey(metadata, a)
                   /\ Called("get_cached", a, "raised")
                   /\ UNCHANGED <<cnow, metadata, files, saved>>
                   /\ play' = [play EXCEPT !.pc = "failed"]
                \/ IF is_cached(metadata, files, a)
                   THEN /\ metadata' = Put(metadata,
                                           [Get(metadata, a) EXCEPT !.last_accessed = cnow])
                        /\ saved' = metadata'
                        /\ Called("get_cached", a, "hit")
                        /\ UNCHANGED <<cnow, files>>
                        /\ \E backend \in {"shown", "declined"} :
                              play' = IF backend = "shown"
                                      THEN [play EXCEPT
                                              !.pc = "showing", !.shown = a,
                                              !.sleep = duration(items[play.index + 1])]
                                      ELSE [play EXCEPT
                                              !.index = NextIndex(play.index, Len(items)),
                                              !.shown = None, !.sleep = 0]
                   ELSE /\ Called("get_cached", a, "miss")
                        /\ UNCHANGED <<cnow, metadata, files, saved>>
                        /\ play' = [play EXCEPT !.index = NextIndex(play.index, Len(items)),
                                                !.shown = None, !.sleep = 0]
    /\ UNCHANGED <<pc, running, display, dl>>
    /\ UNCHANGED <<serverVars, syncVars>>

\* then the sleep of display_playlist_item is over and execute_playlist moves
\* to the next index
display_item_end ==
    /\ play.pc = "showing"
    /\ play' = [play EXCEPT !.pc = "loop",
                            !.index = NextIndex(play.index, Len(play.playlist.items))]
    /\ UNCHANGED <<pc, running, display, dl>>
    /\ UNCHANGED <<serverVars, storeVars, syncVars>>

\* stop(), called by the handler of SIGINT and SIGTERM
stop ==
    /\ pc \notin {"constructed", "exited"}
    /\ running
    /\ running' = FALSE
    /\ UNCHANGED <<pc, display, dl, play>>
    /\ UNCHANGED <<serverVars, storeVars, syncVars>>

\* the finally of start(): shutdown() shuts the display down if there is
\* one; start() returns, the process ends and takes the daemon thread along
shutdown ==
    /\ pc = "shutdown"
    /\ pc' = "exited"
    /\ display' = IF display = "none" THEN "none" ELSE "shut"
    /\ play' = IF play.pc \in {"start", "loop", "stalled"}
               THEN [play EXCEPT !.pc = "killed"]
               ELSE play
    /\ UNCHANGED <<running, dl>>
    /\ UNCHANGED <<serverVars, storeVars, syncVars>>

(***************************************************************************)
(* Specifications.                                                         *)
(***************************************************************************)
NextRegistry ==
    \/ Tick
    \/ create_device
    \/ device_heartbeat(TheDevice, BareHeartbeat)
    \/ liveness_failure
    \/ op_activate
    \/ op_decommission
    \/ op_set_maintenance
    \/ update_device

SpecRegistry == Init /\ [][NextRegistry]_vars

NextLiveness ==
    \/ Tick
    \/ create_device
    \/ device_heartbeat(TheDevice, BareHeartbeat)
    \/ liveness_failure

SpecLiveness == Init /\ [][NextLiveness]_vars

NextIngest ==
    \/ Tick
    \/ create_device
    \/ \E r \in Requests : heartbeat_load(r)
    \/ \E r \in Requests : heartbeat_commit(r)

SpecIngest == Init /\ [][NextIngest]_vars

\* heartbeat requests in flight while the liveness checker records failures
NextRace ==
    \/ Tick
    \/ create_device
    \/ \E r \in Requests : heartbeat_load(r)
    \/ \E r \in Requests : heartbeat_commit(r)
    \/ liveness_failure

SpecRace == Init /\ [][NextRace]_vars

\* GET /devices/{device_id}/playlist: the playlist of the device's
\* current_playlist_id, None for the 404 of a device without one
get_device_playlist == device.current_playlist_id

\* the device reports the playlist it plays, one it was assigned at some
\* time, while the operator assigns playlists
NextReport ==
    \/ Tick
    \/ create_device
    \/ \E p \in PlaylistIds : assign_playlist_to_device(p)
    \/ \E p \in assignedEver \cup {None} :
          device_heartbeat(TheDevice, [BareHeartbeat EXCEPT !.current_playlist_id = p])

SpecReport == Init /\ [][NextReport]_vars

\* heartbeats with and without their optional fields, for the device and
\* for other ids, while the liveness checker records failures; the device
\* reports a playlist it was assigned, and the requests with another id are
\* bare
NextFields ==
    \/ Tick
    \/ create_device
    \/ assign_playlist_to_device("p1")
    \/ \E device_id \in DeviceIds, data \in HeartbeatRequests :
          /\ data.current_playlist_id \in assignedEver \cup {None}
          /\ device_id # TheDevice => data = BareHeartbeat
          /\ device_heartbeat(device_id, data)
    \/ liveness_failure

SpecFields == Init /\ [][NextFields]_vars

NextStore ==
    \/ ClientTick
    \/ \E a \in Assets : get_cached(a)
    \/ \E a \in Assets : download_content(a)
    \/ \E a \in Assets : remove_content(a)
    \/ enforce_cache_limit

SpecStore == Init /\ [][NextStore]_vars

\* the content cache over several runs of the process: downloads, removals
\* and restarts
NextRestart ==
    \/ \E a \in Assets : download_content(a)
    \/ \E a \in Assets : remove_content(a)
    \/ restart

SpecRestart == Init /\ [][NextRestart]_vars

\* the start of the client up to the end of its downloads, over several runs
\* of the process: the operator assigns between the runs, and a run ends after
\* its downloads
NextResync ==
    \/ create_device
    \/ pc = "constructed" /\ \E p \in PlaylistIds : assign_playlist_to_device(p)
    \/ start_authenticate
    \/ initialize_display
    \/ start_fetch
    \/ download_item
    \/ download_done
    \/ pc = "hb_check" /\ restart

SpecResync == Init /\ [][NextResync]_vars

\* the operator's assignments to the device, over time
NextAssign ==
    \/ Tick
    \/ create_device
    \/ \E p \in PlaylistIds : assign_playlist_to_device(p)

SpecAssign == Init /\ [][NextAssign]_vars

\* the requests on the items of one playlist, one at a time
NextEdit ==
    \/ \E pos \in Positions \cup {NoPosition}, dur \in Durations :
          add_playlist_item(pos, dur)
    \/ \E id \in ItemIds : remove_playlist_item(id)
    \/ \E ids \in UNION {[1..n -> ItemIds] : n \in 0..MaxRows} : reorder_items(ids)

SpecEdit == Init /\ [][NextEdit]_vars

NextSchedule == evaluate_schedule

SpecSchedule == Init /\ [][NextSchedule]_vars

NextSync ==
    \/ ClientTick
    \/ fetch_assigned_playlist
    \/ clear_playlist
    \/ \E p \in 0..MaxItems : get_next_item(p)
    \/ create_device
    \/ \E p \in PlaylistIds : assign_playlist_to_device(p)

SpecSync == Init /\ [][NextSync]_vars

\* the fetch of a starting client, and the comparison of what the fetcher
\* then holds with what a later read of the assignment gives
NextDiff ==
    \/ create_device
    \/ \E p \in PlaylistIds : assign_playlist_to_device(p)
    \/ start_authenticate
    \/ initialize_display
    \/ start_fetch
    \/ \E resp \in Responses(device) : has_playlist_changed(Fetched(resp))

SpecDiff == Init /\ [][NextDiff]_vars

\* One run of the client against the server's assignment.  The clock is left
\* out: start() and the two loops only write its stamps (last_accessed,
\* last_fetch_time) and never read them, since should_refresh, cleanup and
\* enforce_cache_limit have no caller in main.py.
NextClient ==
    \/ start_authenticate
    \/ initialize_display
    \/ start_fetch
    \/ download_item
    \/ download_done
    \/ heartbeat_check
    \/ heartbeat_wake
    \/ play_begin
    \/ play_item
    \/ stop
    \/ shutdown
    \/ create_device
    \/ \E p \in PlaylistIds : assign_playlist_to_device(p)

SpecClient == Init /\ [][NextClient]_vars

\* The operator sets the shuffle flag of the playlist and assigns it, then the
\* client starts and plays.
NextShuffle ==
    \/ create_device
    \/ pc = "constructed" /\ \E p \in PlaylistIds : assign_playlist_to_device(p)
    \/ pc = "constructed" /\ \E shuffle \in BOOLEAN : update_playlist(shuffle)
    \/ start_authenticate
    \/ initialize_display
    \/ start_fetch
    \/ download_item
    \/ download_done
    \/ play_begin
    \/ play_item
    \/ stop

SpecShuffle == Init /\ [][NextShuffle]_vars

\* The playback thread of a started client together with calls on its
\* ContentManager from another thread: downloads of content that is not in
\* the playlist, and eviction passes.
NextEvict ==
    \/ create_device
    \/ \E p \in PlaylistIds : assign_playlist_to_device(p)
    \/ start_authenticate
    \/ initialize_display
    \/ start_fetch
    \/ download_item
    \/ download_done
    \/ play_begin
    \/ display_item_show
    \/ display_item_end
    \/ \E a \in Assets \ PlaylistAssets : download_content(a)
    \/ enforce_cache_limit

SpecEvict == Init /\ [][NextEvict]_vars

\* the main thread is scheduled and its sleep ends, whatever the playback
\* thread does
SpecClientLive ==
    SpecClient /\ WF_vars(heartbeat_check) /\ WF_vars(heartbeat_wake)

\* both threads of the client are scheduled: every step of start() and of
\* the playback loop that can be taken is taken
SpecClientFair ==
    /\ SpecClient
    /\ WF_vars(start_authenticate) /\ WF_vars(initialize_display)
    /\ WF_vars(start_fetch) /\ WF_vars(download_item) /\ WF_vars(download_done)
    /\ WF_vars(heartbeat_check) /\ WF_vars(heartbeat_wake)
    /\ WF_vars(play_begin) /\ WF_vars(play_item) /\ WF_vars(shutdown)

(***************************************************************************)
(* The device lifecycle (spec section 4.1).                                *)
(***************************************************************************)
\* the edges of the lifecycle state machine
LifecycleEdges ==
    {<<PENDING, ACTIVE>>, <<ACTIVE, OFFLINE>>, <<OFFLINE, ACTIVE>>,
     <<ACTIVE, MAINTENANCE>>, <<OFFLINE, MAINTENANCE>>}
    \cup {<<s, DECOMMISSIONED>> : s \in DeviceStatus \ {DECOMMISSIONED}}

\* C1: a device driven by heartbeats and liveness-check failures only is
\* OFFLINE exactly when at least OfflineThreshold liveness checks failed since
\* the last processed heartbeat (since registration, before the first one).
C1_OfflineIffThreshold ==
    registered => (device.status = OFFLINE <=> failsSince >= OfflineThreshold)

\* a device that had a heartbeat and then went OFFLINE on a failed check
C1_Witness ==
    /\ registered
    /\ hbSeen # Null
    /\ lastOp = "mark_offline"
    /\ prev.status = ACTIVE
    /\ device.status = OFFLINE
    /\ failsSince = OfflineThreshold

\* C2: every change of the status follows an edge of the lifecycle state
\* machine (stated of the operation that produced the state).
C2_OnlyLifecycleEdges ==
    (registered /\ lastOp # "create_device" /\ device.status # prev.status)
        => <<prev.status, device.status>> \in LifecycleEdges

\* C3: once DECOMMISSIONED, no operation changes the status.
C3_DecommissionedIsTerminal ==
    (registered /\ lastOp # "create_device" /\ prev.status = DECOMMISSIONED)
        => device.status = DECOMMISSIONED

\* C4: processing a heartbeat never decreases last_heartbeat.
C4_LastHeartbeatMonotonic ==
    lastOp = "heartbeat" => device.last_heartbeat >= prev.last_heartbeat

\* C5: last_heartbeat is the latest timestamp of the heartbeats processed so
\* far, and consecutive_failures is 0 right after a heartbeat.
C5_LatestHeartbeatAndReset ==
    registered =>
        /\ device.last_heartbeat = hbSeen
        /\ lastOp = "heartbeat" => device.consecutive_failures = 0

\* a heartbeat processed after failed liveness checks, at a later time than
\* the heartbeat before it
C5_Witness ==
    /\ lastOp = "heartbeat"
    /\ prev.consecutive_failures > 0
    /\ prev.last_heartbeat # Null
    /\ device.last_heartbeat > prev.last_heartbeat

\* C6: a device is registered as PENDING, and a heartbeat processed while it
\* is PENDING or OFFLINE makes it ACTIVE.
C6_PendingThenActive ==
    /\ lastOp = "create_device" => device.status = PENDING
    /\ (lastOp = "heartbeat" /\ prev.status \in {PENDING, OFFLINE})
          => device.status = ACTIVE

\* the first heartbeat of a freshly registered device
C6_Witness ==
    /\ lastOp = "heartbeat"
    /\ prev.status = PENDING
    /\ prev.last_heartbeat = Null
    /\ device.status = ACTIVE

(***************************************************************************)
(* The content store (spec section 4.3).                                   *)
(***************************************************************************)
\* C9: when an eviction pass has returned, the size of the cache is within
\* the configured budget.
C9_WithinBudgetAfterPass ==
    lastCall.op = "enforce_cache_limit"
        => get_cache_size(metadata, files) <= MaxCacheSize

\* C10: a failed download records no entry for its asset and leaves no
\* partial file at the cache path; an entry is made only when the whole
\* stream was written.
C10_FailedDownloadLeavesNothing ==
    /\ (lastCall.op = "download_content" /\ lastCall.result = "failed")
          => /\ HasKey(metadata, lastCall.asset) => HasKey(prevMeta, lastCall.asset)
             /\ ~IsPartial(files, lastCall.asset)
    /\ (lastCall.op = "download_content" /\ lastCall.result = "cached")
          => files[lastCall.asset] = Get(metadata, lastCall.asset).file_size

\* C11: every entry of the index whose file is on disk has a file whose
\* checksum is the checksum recorded in the entry.
C11_FileMatchesRecordedChecksum ==
    \A i \in DOMAIN metadata :
        files[metadata[i].asset_id] # NoFile
            => Checksum(metadata[i].asset_id, files[metadata[i].asset_id])
                 = metadata[i].checksum

\* C12: a download that received fewer bytes than the asset has makes no
\* entry, and a lookup for display never answers with a file that holds a
\* part of its asset only.
C12_TruncatedNeverCommittedNorServed ==
    /\ (lastCall.op = "download_content" /\ lastCall.result = "cached")
          => files[lastCall.asset] = AssetSize(lastCall.asset)
    /\ (lastCall.op = "get_cached" /\ lastCall.result = "hit")
          => files[lastCall.asset] = AssetSize(lastCall.asset)

\* the file of entry e exists and its checksum is the one e records
Verifies(e, fs) ==
    fs[e.asset_id] # NoFile /\ Checksum(e.asset_id, fs[e.asset_id]) = e.checksum

\* C24: after a restart the index holds exactly the entries it held before
\* the restart whose file still exists and still has the recorded checksum;
\* the other entries are dropped at startup.
C24_RestartKeepsVerifiedEntries ==
    lastCall.op = "restart"
        => metadata = SelectSeq(prevMeta, LAMBDA e : Verifies(e, files))

\* the size on disk of the file of asset a, 0 without a file
SizeOnDisk(fs, a) == IF fs[a] # NoFile THEN fs[a] ELSE 0

\* C26: an eviction pass on a cache over budget removes the shortest prefix of
\* the entries in ascending last_accessed order whose removal brings the size
\* within the budget: what it removes was accessed no later than anything it
\* keeps, what it keeps is within the budget, and putting back the latest
\* accessed of the removed entries would exceed the budget; the entries it
\* keeps, and their files, are untouched.
C26_EvictsShortestLruPrefix ==
    [][(lastCall'.op = "enforce_cache_limit"
          /\ get_cache_size(metadata, files) > MaxCacheSize)
         => LET evicted == Keys(metadata) \ Keys(metadata')
            IN  /\ metadata' = SelectSeq(metadata, LAMBDA e : e.asset_id \notin evicted)
                /\ files' = [a \in Assets |-> IF a \in evicted THEN NoFile ELSE files[a]]
                /\ \A a \in evicted : \A b \in Keys(metadata') :
                      Get(metadata, a).last_accessed <= Get(metadata, b).last_accessed
                /\ get_cache_size(metadata', files') <= MaxCacheSize
                /\ evicted # {} =>
                      \E a \in evicted :
                         /\ \A b \in evicted :
                               Get(metadata, b).last_accessed
                                  <= Get(metadata, a).last_accessed
                         /\ get_cache_size(metadata', files') + SizeOnDisk(files, a)
                               > MaxCacheSize]_vars

C7_FailedFetchKeepsPlaylist ==
    [][(lastSync'.op = "fetch" /\ lastSync'.result = None)
          => current_playlist' = current_playlist]_vars

\* asset a is in the content store with the file a completed download
\* committed: the index has its entry and the file is the one the entry
\* describes
Stored(a) ==
    /\ is_cached(metadata, files, a)
    /\ files[a] = Get(metadata, a).file_size
    /\ Checksum(a, files[a]) = Get(metadata, a).checksum

\* the items of a playlist are all in the content store
AllItemsStored(pl) == \A i \in 1..Len(pl.items) : Stored(pl.items[i].asset_id)

\* C8: the playback loop is only started on a playlist whose every item is in
\* the content store with its download completed, and an item it has shown
\* is such an item.
C8_PlaysOnlyStoredContent ==
    /\ play.pc \in {"start", "loop"} => AllItemsStored(play.playlist)
    /\ play.shown # None => Stored(play.shown)

\* download_playlist_content has gone through the items of a playlist that
\* has the id and the number of items of the playlist synced before
ResyncDone ==
    /\ pc = "download"
    /\ dl.i > Len(dl.playlist.items)
    /\ dl.synced # NoPlaylist
    /\ dl.synced.id = dl.playlist.id
    /\ Len(dl.synced.items) = Len(dl.playlist.items)

\* the positions at which the playlist differs from the synced one in content
ChangedContent ==
    {k \in 1..Len(dl.playlist.items) :
        dl.playlist.items[k].asset_id # dl.synced.items[k].asset_id}

C29_ShuffleDrawsOrderPerCycle ==
    (/\ play.pc = "loop"
     /\ running
     /\ play.shuffle
     /\ play.index = 0
     /\ \A k \in 1..Len(play.playlist.items) :
           is_cached(metadata, files, play.playlist.items[k].asset_id))
        => \A k \in 1..Len(play.playlist.items) :
              ENABLED (/\ play_item
                       /\ play'.pc = "loop"
                       /\ play'.shown = play.playlist.items[k].asset_id)

\* C30: while the client runs and its playback loop has begun on a playlist
\* with items, the loop has not ended, whatever the content store or the
\* synchronisation answered or raised, and it is on the last playlist that was
\* synced in full.
C30_PlaybackSurvivesFailures ==
    (/\ running
     /\ pc \in {"hb_check", "hb_sleep"}
     /\ play.pc \notin {"none", "start"}
     /\ play.playlist.items # <<>>)
        => /\ play.pc \in {"loop", "stalled"}
           /\ play.playlist = dl.synced

C13_LoopPlaysInIndexOrder ==
    /\ [](play.playlist.loop_mode =>
            /\ play.pc = "loop" =>
                  (play.index >= 0 /\ play.index < Len(play.playlist.items))
            /\ (play.pc = "returned" /\ play.playlist.items # <<>>) => ~running)
    /\ [][(/\ play.playlist.loop_mode
           /\ play.pc = "loop"
           /\ play'.pc = "loop"
           /\ play' # play)
             => /\ play'.index = (play.index + 1) % Len(play.playlist.items)
                /\ lastCall'.op = "get_cached"
                /\ lastCall'.asset = play.playlist.items[play.index + 1].asset_id]_vars

\* C14: whatever loop_mode is, the item after the last item of a playlist is
\* its first item: asking for the item after any item of a playlist that has
\* items gives an item, never the end of the playlist.
C14_AlwaysANextItem ==
    (/\ lastSync.op = "get_next_item"
     /\ lastSync.arg \in 1..Len(current_playlist.items))
        => /\ lastSync.item # 0
           /\ lastSync.arg = Len(current_playlist.items) => lastSync.item = 1

\* C15: while the client runs its heartbeat loop, the next heartbeat is
\* always sent and the timer always comes round again, also when the playback
\* thread hangs in a render call: playback never blocks the heartbeats.
\* The heartbeat loop never stays at its head (it sends, or leaves when the
\* client was stopped) nor in its sleep, and a running client whose playback
\* thread hangs does not stay without a heartbeat sent during the hang.
C15_HeartbeatsNeverBlocked ==
    /\ []<>(pc # "hb_check")
    /\ []<>(pc # "hb_sleep")
    /\ []<>(~(pc \in {"hb_check", "hb_sleep"} /\ play.pc = "stalled" /\ running)
              \/ play.beat)

\* a heartbeat was sent while the playback thread hung in a render call
C15_Witness ==
    /\ play.pc = "stalled"
    /\ play.beat
    /\ running
    /\ pc = "hb_sleep"

\* the cache holds nothing of asset a, or a in full as a committed entry
CommittedOrDiscarded(a) ==
    \/ ~HasKey(metadata, a) /\ files[a] = NoFile
    \/ Stored(a) /\ files[a] = AssetSize(a)

\* shutdown is requested: stop() was called on a started client, or start()
\* is leaving
ShutdownRequested ==
    \/ pc \notin {"constructed", "exited"} /\ ~running
    \/ pc = "shutdown"

\* C31: once shutdown is requested the client terminates; when it has
\* terminated the shutdown hook of a display that was set up has been called;
\* and a download that ends after stop() was called leaves of its asset either
\* nothing or the whole content as a committed entry.
C31_ShutdownDrainsAndTerminates ==
    /\ ShutdownRequested ~> (pc = "exited")
    /\ [](pc = "exited" => display \in {"none", "shut"})
    /\ [][(/\ ~running
           /\ pc = "download"
           /\ lastCall' # lastCall
           /\ lastCall'.op = "download_content")
             => (CommittedOrDiscarded(lastCall.asset))']_vars

\* C16: a running device polls its assignment, so when the server-side
\* assignment of the device has become playlist p and stays p while the client
\* keeps running with its playback loop going, the client eventually plays p.
C16_NewAssignmentEventuallyPlayed ==
    \A p \in PlaylistIds :
        <>[](/\ running
             /\ pc \in {"hb_check", "hb_sleep"}
             /\ play.pc = "loop"
             /\ device.current_playlist_id = p)
          => <>(play.current.id = p)

(***************************************************************************)
(* Schedule evaluation (spec section on the schedule evaluator).           *)
(***************************************************************************)
\* C17: a playlist with no schedule configured is live whenever its
\* is_active flag is true.
C17_UnscheduledLiveWhenActive ==
    (/\ lastEval.op = "is_scheduled_now"
     /\ lastEval.cfg.start_date = NoDate
     /\ lastEval.cfg.end_date = NoDate
     /\ lastEval.cfg.recurrence = NoRecurrence
     /\ lastEval.is_active)
        => lastEval.result = "live"

\* the hour of the day of instant t in the timezone of the schedule lies in
\* one of the ranges, start <= hour <= end; the ranges are on full hours
InSomeRange(t, cfg) ==
    \E i \in DOMAIN cfg.recurrence.time_ranges :
        \E hs, he \in 0..23 :
            /\ cfg.recurrence.time_ranges[i].start = HHMM(hs)
            /\ cfg.recurrence.time_ranges[i].end = HHMM(he)
            /\ hs <= (t + cfg.timezone) % 24
            /\ (t + cfg.timezone) % 24 <= he

\* C18: with a recurrence configured (days and time ranges), for an active
\* playlist whose start is not in the future and whose end is not in the past,
\* the playlist is live exactly when the day set is empty or holds the ISO
\* weekday of the instant in the schedule's timezone and the local time lies
\* in one of the ranges.
C18_RecurrenceDecidesLive ==
    (/\ lastEval.op = "is_scheduled_now"
     /\ lastEval.is_active
     /\ lastEval.cfg.recurrence.given
     /\ lastEval.cfg.recurrence.time_ranges # <<>>
     /\ ~lastEval.cfg.start_date.aware
     /\ ~lastEval.cfg.end_date.aware
     /\ lastEval.cfg.start_date.given => lastEval.cfg.start_date.t <= lastEval.now
     /\ lastEval.cfg.end_date.given => lastEval.now <= lastEval.cfg.end_date.t)
        => (lastEval.result = "live"
              <=> /\ \/ lastEval.cfg.recurrence.days_of_week = {}
                     \/ (((lastEval.now + lastEval.cfg.timezone) \div 24) % 7) + 1
                           \in lastEval.cfg.recurrence.days_of_week
                  /\ InSomeRange(lastEval.now, lastEval.cfg))

\* C19: a playlist whose schedule start is in the future, or whose schedule
\* end is in the past, is not live at that instant, whatever its recurrence.
C19_OutsideWindowNotLive ==
    (/\ lastEval.op = "is_scheduled_now"
     /\ \/ lastEval.cfg.start_date.given /\ lastEval.now < lastEval.cfg.start_date.t
        \/ lastEval.cfg.end_date.given /\ lastEval.now > lastEval.cfg.end_date.t)
        => lastEval.result # "live"

\* an active playlist that started, whose recurrence matches the instant
\* (Tuesday 10:00 in days 1..5, 09:00-17:00, UTC) and whose end has passed,
\* was evaluated as not live
C19_Witness ==
    /\ lastEval.op = "is_scheduled_now"
    /\ lastEval.is_active
    /\ lastEval.now = 34
    /\ lastEval.cfg.timezone = 0
    /\ lastEval.cfg.start_date = [given |-> TRUE, t |-> 0, aware |-> FALSE]
    /\ lastEval.cfg.end_date = [given |-> TRUE, t |-> 0, aware |-> FALSE]
    /\ lastEval.cfg.recurrence.given
    /\ check_recurrence(lastEval.now, lastEval.cfg)
    /\ lastEval.result = "not_live"

(***************************************************************************)
(* Assignment (spec section on the assignment read).                       *)
(***************************************************************************)
\* the assignment that wins among the rows: the highest priority, among equal
\* priorities the latest assigned_at
Winners(rows) ==
    {r \in rows :
        \A q \in rows :
            \/ Priority(r.playlist_id) > Priority(q.playlist_id)
            \/ /\ Priority(r.playlist_id) = Priority(q.playlist_id)
               /\ r.assigned_at >= q.assigned_at}

\* C20: with several playlists assigned to the device, all of them live, the
\* assignment read returns the playlist of the highest priority, among equal
\* priorities the most recently assigned one.
C20_ReadReturnsHighestPriority ==
    (registered /\ device_playlists # {})
        => \A resp \in Responses(device) :
              resp.kind = "playlist"
                  => \E r \in Winners(device_playlists) :
                        resp.playlist.id = r.playlist_id

\* the loop went through a looping playlist of two assets and is back at
\* index 0 after showing the second item
C13_Witness ==
    /\ play.pc = "loop"
    /\ play.playlist.loop_mode
    /\ Len(play.playlist.items) = 2
    /\ play.playlist.items[1].asset_id # play.playlist.items[2].asset_id
    /\ play.index = 0
    /\ play.shown = play.playlist.items[2].asset_id
    /\ lastCall.op = "get_cached"
    /\ lastCall.asset = play.playlist.items[2].asset_id

\* the playback loop runs on a playlist of two assets, both downloaded in this
\* run, and has shown one of them
C8_Witness ==
    /\ play.pc = "loop"
    /\ Len(play.current.items) = 2
    /\ play.current.items[1].asset_id # play.current.items[2].asset_id
    /\ dl.i = 3
    /\ dl.success
    /\ play.shown # None

\* C23: after any sequence of assignments to a device, the device's current
\* playlist is the one of the latest assignment, device_playlists has a row
\* for every playlist ever assigned to the device, and no two rows for the
\* same playlist.
C23_OneCurrentAllRecorded ==
    assignedLast # None
        => /\ device.current_playlist_id = assignedLast
           /\ {r.playlist_id : r \in device_playlists} = assignedEver
           /\ \A r, q \in device_playlists : r.playlist_id = q.playlist_id => r = q

\* p1 was assigned, later p2, and then p1 again: p1 is current, both have
\* their row, and the row of p1 is the older one
C23_Witness ==
    /\ device.current_playlist_id = "p1"
    /\ assignedEver = {"p1", "p2"}
    /\ \E r, q \in device_playlists :
          /\ r.playlist_id = "p1"
          /\ q.playlist_id = "p2"
          /\ r.assigned_at < q.assigned_at
    /\ now > 2

(***************************************************************************)
(* The items of a playlist (spec section on playlists).                    *)
(***************************************************************************)
\* C21: after any sequence of item additions (with or without an explicit
\* position), removals and reorderings, the positions of the playlist's n
\* items are exactly 0..n-1, each taken once.
C21_PositionsDenseAndUnique ==
    /\ {r.position : r \in playlist_items} = 0..(Cardinality(playlist_items) - 1)
    /\ \A r, q \in playlist_items : r.position = q.position => r = q

\* C22: after any sequence of item additions and removals, item_count is the
\* number of the playlist's items and total_duration_sec the sum of their
\* duration_seconds.
C22_CountAndDurationDerived ==
    lastEdit.result \in {"created", "deleted"}
        => /\ playlist.item_count = Cardinality(playlist_items)
           /\ playlist.total_duration_sec = SumDurations(playlist_items)

(***************************************************************************)
(* Heartbeats (spec section on device heartbeats).                         *)
(***************************************************************************)
\* the columns the liveness state of a device consists of
Outcome(d) == <<d.consecutive_failures, d.status>>

\* C32: when a heartbeat request commits and, since it loaded the device,
\* one other heartbeat or one liveness failure was committed on the row it
\* had loaded, consecutive_failures and status are those of processing the
\* two one after the other, in one order or the other.
C32_ConcurrentUpdatesSerialize ==
    [][\A r \in Requests :
          (/\ sess[r].pc = "dirty"
           /\ sess'[r].pc = "idle"
           /\ prev = sess[r].loaded)
            => /\ lastOp = "heartbeat"
                    => Outcome(device') =
                           Outcome(Heartbeat(sess[r].obj, now, BareHeartbeat))
               /\ lastOp = "mark_offline"
                    => Outcome(device') \in
                           {Outcome(mark_offline(sess[r].obj)),
                            Outcome(Heartbeat(mark_offline(sess[r].loaded), now,
                                              BareHeartbeat))}]_vars

\* C33: a heartbeat for the device succeeds whichever optional fields it
\* lacks; it leaves the stored current playlist, playback position and
\* firmware version unchanged where the request has none, resets
\* consecutive_failures and stamps last_heartbeat with the clock.
C33_AbsentFieldsLeaveStoredValues ==
    [][\A data \in HeartbeatRequests :
          (registered /\ device_heartbeat(TheDevice, data))
            => /\ lastOp' = "heartbeat"
               /\ data.current_playlist_id = None
                    => device'.current_playlist_id = device.current_playlist_id
               /\ data.playback_position_sec = NoPlaybackPosition
                    => device'.playback_position = device.playback_position
               /\ data.firmware_version = None
                    => device'.firmware_version = device.firmware_version
               /\ device'.consecutive_failures = 0
               /\ device'.last_heartbeat = now]_vars

\* a heartbeat found a device with failures, a current playlist, a playback
\* position and a firmware version, and left the three as they were
C33_Witness ==
    /\ lastOp = "heartbeat"
    /\ prev.consecutive_failures > 0
    /\ prev.last_heartbeat < device.last_heartbeat
    /\ prev.current_playlist_id = "p1" /\ device.current_playlist_id = "p1"
    /\ prev.playback_position = 0 /\ device.playback_position = 0
    /\ prev.firmware_version = "v1" /\ device.firmware_version = "v1"
    /\ device.consecutive_failures = 0

\* C34: a heartbeat whose device id is malformed is answered 400, one whose
\* id is the id of no device 404, and neither changes the device.
C34_BadDeviceIdRejected ==
    [][\A device_id \in DeviceIds, data \in HeartbeatRequests :
          (device_heartbeat(device_id, data) /\ (device_id # TheDevice \/ ~registered))
            => /\ lastOp' = IF device_id \in MalformedIds
                            THEN "heartbeat_400" ELSE "heartbeat_404"
               /\ UNCHANGED <<registered, device, device_playlists>>]_vars

\* a heartbeat with a bad id was rejected while the device had failures
C34_Witness ==
    /\ lastOp \in {"heartbeat_400", "heartbeat_404"}
    /\ registered
    /\ device.consecutive_failures > 0
    /\ device.last_heartbeat # Null

\* C36: once a playlist is assigned, the assignment read returns the
\* playlist assigned last, whatever heartbeats were processed since.
C36_HeartbeatKeepsAssignment ==
    (registered /\ assignedLast # None) => get_device_playlist = assignedLast

\* C38: a heartbeat for a device in MAINTENANCE or DECOMMISSIONED leaves the
\* status as it is, resets consecutive_failures and stamps last_heartbeat.
C38_HeartbeatKeepsOperatorStatus ==
    (lastOp = "heartbeat" /\ prev.status \in {MAINTENANCE, DECOMMISSIONED})
        => /\ device.status = prev.status
           /\ device.consecutive_failures = 0
           /\ device.last_heartbeat = now

\* a heartbeat reached a device in MAINTENANCE that had failures
C38_Witness ==
    /\ lastOp = "heartbeat"
    /\ prev.status = MAINTENANCE
    /\ prev.consecutive_failures > 0
    /\ prev.last_heartbeat < now
    /\ device.status = MAINTENANCE

(***************************************************************************)
(* Reads of the cache (spec section on the content cache).                 *)
(***************************************************************************)
\* C35: a lookup that finds the asset cached stamps its entry with the time
\* of the read and leaves every other entry, and the set of entries, as
\* they were; a lookup of an asset that is not cached finds nothing and
\* leaves the index and its file as they were.
C35_LookupStampsOnlyItsEntry ==
    /\ [](lastCall.op = "get_cached"
            => /\ lastCall.result = "hit"
                    => /\ is_cached(prevMeta, files, lastCall.asset)
                       /\ Keys(metadata) = Keys(prevMeta)
                       /\ Get(metadata, lastCall.asset) =
                              [Get(prevMeta, lastCall.asset) EXCEPT !.last_accessed = cnow]
                       /\ \A b \in Keys(prevMeta) \ {lastCall.asset} :
                              Get(metadata, b) = Get(prevMeta, b)
               /\ ~is_cached(prevMeta, files, lastCall.asset)
                    => /\ lastCall.result # "hit"
                       /\ metadata = prevMeta
               /\ ~HasKey(prevMeta, lastCall.asset) => lastCall.result = "miss")
    /\ [][lastCall'.op = "get_cached"
            => /\ files' = files
               /\ lastCall'.result # "hit" => saved' = saved]_vars

\* a lookup at a later time stamped the entry of one of two cached assets
C35_Witness ==
    /\ lastCall.op = "get_cached"
    /\ lastCall.result = "hit"
    /\ Len(metadata) = 2
    /\ Get(prevMeta, lastCall.asset).last_accessed < cnow
    /\ Get(metadata, lastCall.asset).last_accessed = cnow
    /\ \E b \in Keys(metadata) \ {lastCall.asset} :
          Get(metadata, b).last_accessed < cnow

(***************************************************************************)
(* The client without content (spec section on the client's start-up).     *)
(***************************************************************************)
\* C37: a client that has authenticated and initialized its display and was
\* not asked to stop does not leave start() when it finds no assigned
\* playlist or when a download fails: it goes on to its heartbeat loop.
C37_ClientWithoutContentKeepsRunning ==
    [][(running /\ pc \in {"fetch", "download"})
          => pc' \notin {"shutdown", "exited"}]_vars

\* C39: while an item is on the display, the sleep that holds the loop
\* before it advances lasts the duration_seconds the item was delivered
\* with.
C39_ItemShownForItsDuration ==
    play.pc = "showing"
        => play.sleep = play.playlist.items[play.index + 1].duration_seconds

====
